---- MODULE Spec2Model ----
(***************************************************************************)
(* Aerocode CLI (src/AV1/av1.ts): the repository of aircraft and           *)
(* employees, the session, the two JSON documents of the data directory    *)
(* and the report files, with one action per command of mainLoop.          *)
(*                                                                         *)
(* JavaScript values of mixed type are tagged records, so that a number,   *)
(* NaN and null can be told apart: Num(n), NaN, null, Str(s).              *)
(* Sequences are 1-based: findIndex returns 0 where JavaScript returns -1. *)
(***************************************************************************)
EXTENDS Integers, Sequences, FiniteSets, TLC

VARIABLES
  aeronaves,        \* repo.aeronaves: Aeronave[]
  funcionarios,     \* repo.funcionarios: Funcionario[]
  currentUser,      \* the session: a Funcionario or null
  arqAeronaves,     \* data/aeronaves.json: absent, or the JSON document
  arqFuncionarios,  \* data/funcionarios.json: absent, or the JSON document
  relatorios,       \* data/<codigo>_relatorio.txt, per aircraft code
  saida,            \* the last line the command wrote to the console
  escritas          \* the files the last command wrote, in the order written

vars == <<aeronaves, funcionarios, currentUser, arqAeronaves, arqFuncionarios,
          relatorios, saida, escritas>>

repoVars == <<aeronaves, funcionarios>>
arqVars == <<arqAeronaves, arqFuncionarios, relatorios>>

----------------------------------------------------------------------------
(* Bounds and input sets *)

\* live aircraft, parts, stages and tests (all kinds together) the commands
\* create: where only the stage commands run, and where every command runs
MaxEntidadesEtapas == 3
MaxEntidades == 2
\* employees the model creates
MaxFuncionarios == 2
\* aircraft created where the employee commands run beside them
MaxEntidadesFuncionarios == 1
\* live aircraft, parts, stages and tests where the test commands run
MaxEntidadesTestes == 3

\* the 7 random base-36 characters of genId, drawn from a small set
Sufixos == {"a", "b"}

\* aircraft codes as typed, one character per element
Codigos == {<<"A">>, <<"A", "/", "B">>}

\* the answers to the prompts of createAeronave after the code
DadosAeronave ==
  { [modelo |-> "E190", tipoRaw |-> "militar",
     capacidade |-> <<"1", "8", "0">>, alcance |-> <<"4", "5">>],
    [modelo |-> "KC390", tipoRaw |-> "cargueiro",
     capacidade |-> <<"a">>, alcance |-> <<>>] }

\* the answers to the prompts of createFuncionario
NiveisRaw == {"ADMINISTRADOR", "engenheiro", "gerente"}
Usuarios == {"bob"}
Senhas == {"secret"}

\* the answers to the prompts of login
Credenciais ==
  {<<"bob", "secret">>, <<"bob", "wrong">>, <<"eva", "secret">>, <<"lia", "secret">>}

ResultadosRaw == {"aprovado", "ok"}
Clientes == {"ACME"}
DatasEntrega == {"2026-12-01"}

----------------------------------------------------------------------------
(* Enums and values *)

TipoAeronave == [COMERCIAL |-> "COMERCIAL", MILITAR |-> "MILITAR"]
TipoPeca == [NACIONAL |-> "NACIONAL", IMPORTADA |-> "IMPORTADA"]
StatusPeca ==
  [EM_PRODUCAO |-> "EM_PRODUCAO", EM_TRANSPORTE |-> "EM_TRANSPORTE", PRONTA |-> "PRONTA"]
StatusEtapa ==
  [PENDENTE |-> "PENDENTE", ANDAMENTO |-> "ANDAMENTO", CONCLUIDA |-> "CONCLUIDA"]
NivelPermissao ==
  [ADMINISTRADOR |-> "ADMINISTRADOR", ENGENHEIRO |-> "ENGENHEIRO", OPERADOR |-> "OPERADOR"]
TipoTeste ==
  [ELETRICO |-> "ELETRICO", HIDRAULICO |-> "HIDRAULICO", AERODINAMICO |-> "AERODINAMICO"]
ResultadoTeste == [APROVADO |-> "APROVADO", REPROVADO |-> "REPROVADO"]

null == [tipo |-> "null"]
NaN == [tipo |-> "NaN"]
Num(n) == [tipo |-> "number", valor |-> n]
Str(s) == [tipo |-> "string", valor |-> s]
ausente == [tipo |-> "ausente"]
Documento(v) == [tipo |-> "json", valor |-> v]

toUpperCaseIdentidade(s) == s

\* String.prototype.toUpperCase on the answers the model types
toUpperCase(s) ==
  CASE s = "militar" -> "MILITAR"
    [] s = "cargueiro" -> "CARGUEIRO"
    [] s = "engenheiro" -> "ENGENHEIRO"
    [] s = "gerente" -> "GERENTE"
    [] s = "importada" -> "IMPORTADA"
    [] s = "hidraulico" -> "HIDRAULICO"
    [] s = "aprovado" -> "APROVADO"
    [] s = "ok" -> "OK"
    [] OTHER -> s

CoagirSemCaixa(raw, enum, fallback) ==
  IF raw \in DOMAIN enum THEN raw ELSE fallback

\* (raw.toUpperCase() in Enum) ? raw.toUpperCase() : fallback
Coagir(raw, enum, fallback) ==
  IF toUpperCase(raw) \in DOMAIN enum THEN toUpperCase(raw) ELSE fallback

DigitoValor ==
  [c \in {"0", "1", "2", "3", "4", "5", "6", "7", "8", "9"} |->
     CASE c = "0" -> 0 [] c = "1" -> 1 [] c = "2" -> 2 [] c = "3" -> 3
       [] c = "4" -> 4 [] c = "5" -> 5 [] c = "6" -> 6 [] c = "7" -> 7
       [] c = "8" -> 8 [] c = "9" -> 9]

RECURSIVE Decimal(_)
Decimal(s) ==
  IF s = <<>> THEN 0
  ELSE 10 * Decimal(SubSeq(s, 1, Len(s) - 1)) + DigitoValor[s[Len(s)]]

\* Number(text) on texts of digits and letters: "" is 0, digits are their
\* decimal value, anything else is NaN
Number(s) ==
  IF s = <<>> THEN Num(0)
  ELSE IF \A i \in 1..Len(s) : s[i] \in DOMAIN DigitoValor THEN Num(Decimal(s))
  ELSE NaN

\* Array.prototype.findIndex (and find), given the callback's result on each
\* element: the first index where it is true, 0 when there is none
FindIndex(testes) ==
  IF \E i \in 1..Len(testes) : testes[i]
  THEN CHOOSE i \in 1..Len(testes) : testes[i] /\ \A j \in 1..(i - 1) : ~testes[j]
  ELSE 0

SpliceAte(seq, index) == SubSeq(seq, 1, index - 1)

\* Array.prototype.splice(index, 1)
Splice(seq, index) == SubSeq(seq, 1, index - 1) \o SubSeq(seq, index + 1, Len(seq))

\* Array.prototype.includes
Includes(seq, x) == \E i \in 1..Len(seq) : seq[i] = x

genId(prefix) == {prefix \o s : s \in Sufixos}

----------------------------------------------------------------------------
(* Entities *)

Peca(id, nome, tipo, fornecedor) ==
  [id |-> id, nome |-> nome, tipo |-> tipo, fornecedor |-> fornecedor,
   status |-> StatusPeca.EM_PRODUCAO]

Teste(id, tipo) == [id |-> id, tipo |-> tipo, resultado |-> null]

Funcionario(id, nome, telefone, endereco, usuario, senha, nivel) ==
  [id |-> id, nome |-> nome, telefone |-> telefone, endereco |-> endereco,
   usuario |-> usuario, senha |-> senha, nivel |-> nivel]

\* proto is the object's prototype: an Etapa built by the constructor has the
\* method addFuncionario, an object parsed from JSON has not
Etapa(id, nome, prazo) ==
  [proto |-> "Etapa", id |-> id, nome |-> nome, prazo |-> prazo,
   status |-> StatusEtapa.PENDENTE, funcionarios |-> <<>>]

AeronaveTrocada(codigo, modelo, tipo, capacidade, alcance) ==
  [codigo |-> codigo, modelo |-> modelo, tipo |-> tipo,
   capacidade |-> alcance, alcance |-> capacidade,
   pecas |-> <<>>, etapas |-> <<>>, testes |-> <<>>,
   cliente |-> null, dataEntrega |-> null]

Aeronave(codigo, modelo, tipo, capacidade, alcance) ==
  [codigo |-> codigo, modelo |-> modelo, tipo |-> tipo,
   capacidade |-> capacidade, alcance |-> alcance,
   pecas |-> <<>>, etapas |-> <<>>, testes |-> <<>>,
   cliente |-> null, dataEntrega |-> null]

RECURSIVE Soma(_)
Soma(s) == IF s = <<>> THEN 0 ELSE Head(s) + Soma(Tail(s))

\* the aircraft and the parts, stages and tests they own
Entidades ==
  Len(aeronaves)
  + Soma([i \in 1..Len(aeronaves) |->
            Len(aeronaves[i].pecas) + Len(aeronaves[i].etapas)
            + Len(aeronaves[i].testes)])

----------------------------------------------------------------------------
(* JSON.stringify and JSON.parse *)

\* a number: NaN (and the infinities) are written as null
NumberJSON(n) == IF n = NaN THEN null ELSE n

\* an Etapa: its own properties, without the prototype
EtapaJSON(e) ==
  [id |-> e.id, nome |-> e.nome, prazo |-> e.prazo, status |-> e.status,
   funcionarios |-> e.funcionarios]

AeronaveJSON(a) ==
  [codigo |-> a.codigo, modelo |-> a.modelo, tipo |-> a.tipo,
   capacidade |-> NumberJSON(a.capacidade), alcance |-> NumberJSON(a.alcance),
   pecas |-> a.pecas,
   etapas |-> [i \in 1..Len(a.etapas) |-> EtapaJSON(a.etapas[i])],
   testes |-> a.testes,
   cliente |-> a.cliente, dataEntrega |-> a.dataEntrega]

\* JSON.stringify(repo.aeronaves)
Stringify(as) == [i \in 1..Len(as) |-> AeronaveJSON(as[i])]

EtapaParse(j) ==
  [proto |-> "Object", id |-> j.id, nome |-> j.nome, prazo |-> j.prazo,
   status |-> j.status, funcionarios |-> j.funcionarios]

AeronaveParse(j) ==
  [codigo |-> j.codigo, modelo |-> j.modelo, tipo |-> j.tipo,
   capacidade |-> j.capacidade, alcance |-> j.alcance,
   pecas |-> j.pecas,
   etapas |-> [i \in 1..Len(j.etapas) |-> EtapaParse(j.etapas[i])],
   testes |-> j.testes,
   cliente |-> j.cliente, dataEntrega |-> j.dataEntrega]

\* JSON.parse of the aircraft document
Parse(doc) == [i \in 1..Len(doc) |-> AeronaveParse(doc[i])]

saveJSON(obj) == Documento(obj)

loadJSON(arq, fallback) == IF arq = ausente THEN fallback ELSE arq.valor

\* repo.persist() of the collections as, fs
persist(as, fs) ==
  /\ arqAeronaves' = saveJSON(Stringify(as))
  /\ arqFuncionarios' = saveJSON(fs)

ArquivosRepo == <<"aeronaves.json", "funcionarios.json">>

----------------------------------------------------------------------------
(* Access control *)

Admin == {NivelPermissao.ADMINISTRADOR}
AdminEngenheiro == {NivelPermissao.ADMINISTRADOR, NivelPermissao.ENGENHEIRO}
Todos ==
  {NivelPermissao.ADMINISTRADOR, NivelPermissao.ENGENHEIRO, NivelPermissao.OPERADOR}

requireAuthSemNivel(levels) ==
  IF currentUser = null THEN "ERRO: Autenticação necessária" ELSE "ok"

\* requireAuth: the message of the error it throws, or "ok"
requireAuth(levels) ==
  IF currentUser = null THEN "ERRO: Autenticação necessária"
  ELSE IF currentUser.nivel \notin levels THEN "ERRO: Permissão negada"
  ELSE "ok"

\* a command that prints msg and returns, or throws msg, before changing anything
Recusa(msg) ==
  /\ saida' = msg
  /\ escritas' = <<>>
  /\ UNCHANGED <<repoVars, currentUser, arqVars>>

----------------------------------------------------------------------------
\* the first run: the data directory is empty
InitVazio ==
  /\ arqAeronaves = ausente
  /\ arqFuncionarios = ausente
  /\ relatorios = [c \in Codigos |-> ausente]
  /\ aeronaves = Parse(loadJSON(arqAeronaves, <<>>))
  /\ funcionarios = loadJSON(arqFuncionarios, <<>>)
  /\ currentUser = null
  /\ saida = "=== Aerocode CLI - Starter ==="
  /\ escritas = <<>>

\* the process exits and is started again on the same data directory
Reiniciar ==
  /\ aeronaves' = Parse(loadJSON(arqAeronaves, <<>>))
  /\ funcionarios' = loadJSON(arqFuncionarios, <<>>)
  /\ currentUser' = null
  /\ saida' = "=== Aerocode CLI - Starter ==="
  /\ escritas' = <<>>
  /\ UNCHANGED arqVars

createFuncionario(usuario, senha, nivelRaw, id) ==
  LET nivel == Coagir(nivelRaw, NivelPermissao, NivelPermissao.OPERADOR)
      f == Funcionario(id, "Nome", "Telefone", "Endereco", usuario, senha, nivel)
  IN /\ Len(funcionarios) < MaxFuncionarios
     /\ funcionarios' = Append(funcionarios, f)
     /\ persist(aeronaves, funcionarios')
     /\ saida' = "Funcionário criado"
     /\ escritas' = ArquivosRepo
     /\ UNCHANGED <<aeronaves, currentUser, relatorios>>

cmd_createFuncionario ==
  \E usuario \in Usuarios, senha \in Senhas, nivelRaw \in NiveisRaw,
     id \in genId("F-") :
    createFuncionario(usuario, senha, nivelRaw, id)

deleteFuncionario(fid) ==
  LET index == FindIndex([i \in 1..Len(funcionarios) |-> funcionarios[i].id = fid])
  IN IF requireAuth(Admin) # "ok" THEN Recusa(requireAuth(Admin))
     ELSE IF index = 0 THEN Recusa("Funcionário não encontrado")
     ELSE /\ funcionarios' = Splice(funcionarios, index)
          /\ persist(aeronaves, funcionarios')
          /\ saida' = "Funcionário deletado com sucesso!"
          /\ escritas' = ArquivosRepo
          /\ UNCHANGED <<aeronaves, currentUser, relatorios>>

cmd_deleteFuncionario == \E fid \in genId("F-") : deleteFuncionario(fid)

\* the test of login: x.usuario === usuario && x.senha === senha
ConfereSoUsuario(x, usuario, senha) == x.usuario = usuario

Confere(x, usuario, senha) == x.usuario = usuario /\ x.senha = senha

login(cred) ==
  LET index == FindIndex([i \in 1..Len(funcionarios) |->
                            Confere(funcionarios[i], cred[1], cred[2])])
  IN IF index = 0 THEN Recusa("Login falhou")
     ELSE /\ currentUser' = funcionarios[index]
          /\ saida' = "Logado como"
          /\ escritas' = <<>>
          /\ UNCHANGED <<repoVars, arqVars>>

cmd_login == \E cred \in Credenciais : login(cred)

cmd_logout ==
  /\ currentUser' = null
  /\ saida' = "Deslogado"
  /\ escritas' = <<>>
  /\ UNCHANGED <<repoVars, arqVars>>

----------------------------------------------------------------------------
(* Aircraft *)

\* repo.aeronaves.findIndex(a => a.codigo === codigo)
IndiceAeronave(codigo) == FindIndex([i \in 1..Len(aeronaves) |-> aeronaves[i].codigo = codigo])

CodigoJaExisteEntreVarias(codigo) ==
  Len(aeronaves) > 1 /\ IndiceAeronave(codigo) # 0

\* the duplicate check of createAeronave: find(a => a.codigo === codigo)
CodigoJaExiste(codigo) == IndiceAeronave(codigo) # 0

createAeronave(codigo, d, limite) ==
  LET tipo == Coagir(d.tipoRaw, TipoAeronave, TipoAeronave.COMERCIAL)
      a == Aeronave(codigo, d.modelo, tipo, Number(d.capacidade), Number(d.alcance))
  IN IF requireAuth(AdminEngenheiro) # "ok" THEN Recusa(requireAuth(AdminEngenheiro))
     ELSE IF CodigoJaExiste(codigo) THEN Recusa("Código já existe")
     ELSE /\ Entidades < limite
          /\ aeronaves' = Append(aeronaves, a)
          /\ persist(aeronaves', funcionarios)
          /\ saida' = "Aeronave criada"
          /\ escritas' = ArquivosRepo
          /\ UNCHANGED <<funcionarios, currentUser, relatorios>>

cmd_createAeronave(limite) ==
  \E codigo \in Codigos, d \in DadosAeronave : createAeronave(codigo, d, limite)

deleteAeronave(codigo) ==
  LET index == IndiceAeronave(codigo)
  IN IF requireAuth(AdminEngenheiro) # "ok" THEN Recusa(requireAuth(AdminEngenheiro))
     ELSE IF index = 0 THEN Recusa("Aeronave não encontrada")
     ELSE /\ aeronaves' = Splice(aeronaves, index)
          /\ persist(aeronaves', funcionarios)
          /\ saida' = "Aeronave deletada com sucesso!"
          /\ escritas' = ArquivosRepo
          /\ UNCHANGED <<funcionarios, currentUser, relatorios>>

cmd_deleteAeronave == \E codigo \in Codigos : deleteAeronave(codigo)

\* a command that changed the aircraft at index ia into a, and persisted
Atualiza(ia, a, msg) ==
  /\ aeronaves' = [aeronaves EXCEPT ![ia] = a]
  /\ persist(aeronaves', funcionarios)
  /\ saida' = msg
  /\ escritas' = ArquivosRepo
  /\ UNCHANGED <<funcionarios, currentUser, relatorios>>

addPeca(codigo, id, limite) ==
  LET ia == IndiceAeronave(codigo)
      tipo == Coagir("importada", TipoPeca, TipoPeca.NACIONAL)
      p == Peca(id, "asa", tipo, "Fornecedor")
  IN IF requireAuth(AdminEngenheiro) # "ok" THEN Recusa(requireAuth(AdminEngenheiro))
     ELSE IF ia = 0 THEN Recusa("Aeronave não encontrada")
     ELSE /\ Entidades < limite
          /\ Atualiza(ia, [aeronaves[ia] EXCEPT !.pecas = Append(@, p)],
                      "Peça adicionada")

cmd_addPeca(limite) ==
  \E codigo \in Codigos, id \in genId("P-") : addPeca(codigo, id, limite)

addEtapa(codigo, id, limite) ==
  LET ia == IndiceAeronave(codigo)
      e == Etapa(id, "montagem", "2026-06-30")
  IN IF requireAuth(AdminEngenheiro) # "ok" THEN Recusa(requireAuth(AdminEngenheiro))
     ELSE IF ia = 0 THEN Recusa("Aeronave não encontrada")
     ELSE /\ Entidades < limite
          /\ Atualiza(ia, [aeronaves[ia] EXCEPT !.etapas = Append(@, e)],
                      "Etapa adicionada")

cmd_addEtapa(limite) ==
  \E codigo \in Codigos, id \in genId("E-") : addEtapa(codigo, id, limite)

addTeste(codigo, id, limite) ==
  LET ia == IndiceAeronave(codigo)
      tipo == Coagir("hidraulico", TipoTeste, TipoTeste.ELETRICO)
      t == Teste(id, tipo)
  IN IF requireAuth(AdminEngenheiro) # "ok" THEN Recusa(requireAuth(AdminEngenheiro))
     ELSE IF ia = 0 THEN Recusa("Aeronave não encontrada")
     ELSE /\ Entidades < limite
          /\ Atualiza(ia, [aeronaves[ia] EXCEPT !.testes = Append(@, t)],
                      "Teste criado")

cmd_addTeste(limite) ==
  \E codigo \in Codigos, id \in genId("T-") : addTeste(codigo, id, limite)

----------------------------------------------------------------------------
(* Stages *)

\* a.etapas.findIndex(x => x.id === eid)
IndiceEtapa(a, eid) == FindIndex([i \in 1..Len(a.etapas) |-> a.etapas[i].id = eid])

PodeIniciarSempre(a, idx) == TRUE

\* the guard of startEtapa, negated:
\* !(idx > 0 && a.etapas[idx - 1]?.status !== CONCLUIDA), idx 1-based here
PodeIniciar(a, idx) ==
  ~(idx > 1 /\ a.etapas[idx - 1].status # StatusEtapa.CONCLUIDA)

PodeFinalizarIniciada(etapa) == etapa.status # StatusEtapa.PENDENTE

\* the guard of finishEtapa, negated: !(etapa.status !== ANDAMENTO)
PodeFinalizar(etapa) == etapa.status = StatusEtapa.ANDAMENTO

startEtapa(codigo, eid) ==
  LET ia == IndiceAeronave(codigo)
      idx == IndiceEtapa(aeronaves[ia], eid)
  IN IF requireAuth(Todos) # "ok" THEN Recusa(requireAuth(Todos))
     ELSE IF ia = 0 THEN Recusa("Aeronave não encontrada")
     ELSE IF idx = 0 THEN Recusa("Etapa não encontrada")
     ELSE IF ~PodeIniciar(aeronaves[ia], idx)
          THEN Recusa("Não pode iniciar: etapa anterior não concluída")
     ELSE Atualiza(ia,
                   [aeronaves[ia] EXCEPT !.etapas[idx].status = StatusEtapa.ANDAMENTO],
                   "Etapa iniciada")

cmd_startEtapa ==
  \E codigo \in Codigos, eid \in genId("E-") : startEtapa(codigo, eid)

finishEtapa(codigo, eid) ==
  LET ia == IndiceAeronave(codigo)
      idx == IndiceEtapa(aeronaves[ia], eid)
  IN IF requireAuth(AdminEngenheiro) # "ok" THEN Recusa(requireAuth(AdminEngenheiro))
     ELSE IF ia = 0 THEN Recusa("Aeronave não encontrada")
     ELSE IF idx = 0 THEN Recusa("Etapa não encontrada")
     ELSE IF ~PodeFinalizar(aeronaves[ia].etapas[idx])
          THEN Recusa("Etapa não está em andamento")
     ELSE Atualiza(ia,
                   [aeronaves[ia] EXCEPT !.etapas[idx].status = StatusEtapa.CONCLUIDA],
                   "Etapa finalizada")

cmd_finishEtapa ==
  \E codigo \in Codigos, eid \in genId("E-") : finishEtapa(codigo, eid)

\* Etapa.addFuncionario
addFuncionario(e, id) ==
  IF ~Includes(e.funcionarios, id)
  THEN [e EXCEPT !.funcionarios = Append(@, id)]
  ELSE e

assignFuncionario(codigo, eid, fid) ==
  LET ia == IndiceAeronave(codigo)
      idx == IndiceEtapa(aeronaves[ia], eid)
      e == aeronaves[ia].etapas[idx]
  IN IF requireAuth(AdminEngenheiro) # "ok" THEN Recusa(requireAuth(AdminEngenheiro))
     ELSE IF ia = 0 THEN Recusa("Aeronave não encontrada")
     ELSE IF idx = 0 THEN Recusa("Etapa não encontrada")
     ELSE IF FindIndex([i \in 1..Len(funcionarios) |-> funcionarios[i].id = fid]) = 0
          THEN Recusa("Funcionário não encontrado")
     ELSE IF e.proto # "Etapa"
          THEN Recusa("ERRO: e.addFuncionario is not a function")
     ELSE Atualiza(ia,
                   [aeronaves[ia] EXCEPT !.etapas[idx] = addFuncionario(e, fid)],
                   "Funcionário associado")

cmd_assignFuncionario ==
  \E codigo \in Codigos, eid \in genId("E-"), fid \in genId("F-") :
    assignFuncionario(codigo, eid, fid)

----------------------------------------------------------------------------
(* Tests *)

setResultadoTeste(codigo, tid, resRaw) ==
  LET ia == IndiceAeronave(codigo)
      it == FindIndex([i \in 1..Len(aeronaves[ia].testes) |->
                          aeronaves[ia].testes[i].id = tid])
      resultado == IF toUpperCase(resRaw) = "APROVADO"
                   THEN ResultadoTeste.APROVADO ELSE ResultadoTeste.REPROVADO
  IN IF requireAuth(AdminEngenheiro) # "ok" THEN Recusa(requireAuth(AdminEngenheiro))
     ELSE IF ia = 0 THEN Recusa("Aeronave não encontrada")
     ELSE IF it = 0 THEN Recusa("Teste não encontrado")
     ELSE Atualiza(ia,
                   [aeronaves[ia] EXCEPT !.testes[it].resultado = Str(resultado)],
                   "Resultado setado")

cmd_setResultadoTeste ==
  \E codigo \in Codigos, tid \in genId("T-"), resRaw \in ResultadosRaw :
    setResultadoTeste(codigo, tid, resRaw)

----------------------------------------------------------------------------
(* Report *)

\* path.join(DATA_DIR, codigo + '_relatorio.txt') names a file in a directory
\* below DATA_DIR when a '/' of the code follows a character that is not '/';
\* the program creates no such directory
TemSubdiretorio(codigo) ==
  \E i \in 1..Len(codigo) :
    /\ codigo[i] = "/"
    /\ \E j \in 1..(i - 1) : codigo[j] # "/"

\* the lines of the report that depend on the prompts: Cliente, Data de entrega
Relatorio(a) == [cliente |-> a.cliente, dataEntrega |-> a.dataEntrega]

generateReport(codigo, cliente, dataEntrega) ==
  LET ia == IndiceAeronave(codigo)
      a == [aeronaves[ia] EXCEPT !.cliente = Str(cliente),
                                 !.dataEntrega = Str(dataEntrega)]
  IN IF requireAuth(AdminEngenheiro) # "ok" THEN Recusa(requireAuth(AdminEngenheiro))
     ELSE IF ia = 0 THEN Recusa("Aeronave não encontrada")
     ELSE IF TemSubdiretorio(codigo)
          THEN \* writeFileSync throws ENOENT: persist() is not reached
               /\ aeronaves' = [aeronaves EXCEPT ![ia] = a]
               /\ saida' = "ERRO: ENOENT: no such file or directory"
               /\ escritas' = <<>>
               /\ UNCHANGED <<funcionarios, currentUser, arqVars>>
     ELSE /\ aeronaves' = [aeronaves EXCEPT ![ia] = a]
          /\ relatorios' = [relatorios EXCEPT ![codigo] = Documento(Relatorio(a))]
          /\ persist(aeronaves', funcionarios)
          /\ saida' = "Relatório gerado em"
          /\ escritas' = <<"_relatorio.txt">> \o ArquivosRepo
          /\ UNCHANGED <<funcionarios, currentUser>>

cmd_generateReport ==
  \E codigo \in Codigos, cliente \in Clientes, dataEntrega \in DatasEntrega :
    generateReport(codigo, cliente, dataEntrega)

----------------------------------------------------------------------------
(* Specifications *)

\* a data directory an earlier run left: three employees, one of each level
FuncionariosIniciais ==
  << Funcionario("F-a", "Nome", "Telefone", "Endereco", "bob", "secret",
                 NivelPermissao.ADMINISTRADOR),
     Funcionario("F-b", "Nome", "Telefone", "Endereco", "eva", "secret",
                 NivelPermissao.ENGENHEIRO),
     Funcionario("F-c", "Nome", "Telefone", "Endereco", "lia", "secret",
                 NivelPermissao.OPERADOR) >>

Init ==
  /\ arqAeronaves = ausente
  /\ arqFuncionarios = saveJSON(FuncionariosIniciais)
  /\ relatorios = [c \in Codigos |-> ausente]
  /\ aeronaves = Parse(loadJSON(arqAeronaves, <<>>))
  /\ funcionarios = loadJSON(arqFuncionarios, <<>>)
  /\ currentUser = null
  /\ saida = "=== Aerocode CLI - Starter ==="
  /\ escritas = <<>>

\* the stage commands, with the commands that build and reload their aircraft
NextEtapas ==
  \/ Reiniciar
  \/ cmd_login
  \/ cmd_logout
  \/ cmd_createAeronave(MaxEntidadesEtapas)
  \/ cmd_deleteAeronave
  \/ cmd_addEtapa(MaxEntidadesEtapas)
  \/ cmd_startEtapa
  \/ cmd_finishEtapa

SpecEtapas == Init /\ [][NextEtapas]_vars

\* every gated command, run by the three employees, and the restart
Next ==
  \/ Reiniciar
  \/ cmd_login
  \/ cmd_logout
  \/ cmd_deleteFuncionario
  \/ cmd_createAeronave(MaxEntidades)
  \/ cmd_deleteAeronave
  \/ cmd_addPeca(MaxEntidades)
  \/ cmd_addEtapa(MaxEntidades)
  \/ cmd_addTeste(MaxEntidades)
  \/ cmd_startEtapa
  \/ cmd_finishEtapa
  \/ cmd_assignFuncionario
  \/ cmd_setResultadoTeste
  \/ cmd_generateReport

Spec == Init /\ [][Next]_vars

\* the employee list and the session
NextAcesso ==
  \/ cmd_createFuncionario
  \/ cmd_deleteFuncionario
  \/ cmd_login
  \/ cmd_logout

SpecAcesso == InitVazio /\ [][NextAcesso]_vars

\* the employee list and the session, with aircraft in the repository
NextFuncionarios ==
  \/ Reiniciar
  \/ cmd_createFuncionario
  \/ cmd_deleteFuncionario
  \/ cmd_login
  \/ cmd_logout
  \/ cmd_createAeronave(MaxEntidadesFuncionarios)
  \/ cmd_deleteAeronave

SpecFuncionarios == InitVazio /\ [][NextFuncionarios]_vars

\* the test commands, with the commands that build and reload their aircraft
NextTestes ==
  \/ Reiniciar
  \/ cmd_login
  \/ cmd_logout
  \/ cmd_createAeronave(MaxEntidadesTestes)
  \/ cmd_deleteAeronave
  \/ cmd_addPeca(MaxEntidadesTestes)
  \/ cmd_addEtapa(MaxEntidadesTestes)
  \/ cmd_addTeste(MaxEntidadesTestes)
  \/ cmd_setResultadoTeste

SpecTestes == Init /\ [][NextTestes]_vars
----------------------------------------------------------------------------
(* Properties *)

PENDENTE == StatusEtapa.PENDENTE
ANDAMENTO == StatusEtapa.ANDAMENTO
CONCLUIDA == StatusEtapa.CONCLUIDA

\* the statuses of the stages of every aircraft
StatusDasEtapas(as) ==
  [i \in 1..Len(as) |-> [k \in 1..Len(as[i].etapas) |-> as[i].etapas[k].status]]

\* the repository and its two documents
repoEArquivos == <<aeronaves, funcionarios, arqAeronaves, arqFuncionarios>>

\* C1: with an authorised session, startEtapa on the stage found at index idx
\* of an existing aircraft prints 'Etapa iniciada' and leaves that stage
\* ANDAMENTO if and only if the stage is the first or the stage before it is
\* CONCLUIDA; otherwise it prints 'Não pode iniciar: etapa anterior não
\* concluída' and no stage status changes.
StartStageIffPrecedingDone ==
  [][\A codigo \in Codigos, eid \in genId("E-") :
       (startEtapa(codigo, eid) /\ requireAuth(Todos) = "ok"
          /\ IndiceAeronave(codigo) # 0) =>
         LET ia == IndiceAeronave(codigo)
             idx == IndiceEtapa(aeronaves[ia], eid)
         IN idx # 0 =>
              IF idx = 1 \/ aeronaves[ia].etapas[idx - 1].status = CONCLUIDA
              THEN /\ saida' = "Etapa iniciada"
                   /\ aeronaves'[ia].etapas[idx].status = ANDAMENTO
              ELSE /\ saida' = "Não pode iniciar: etapa anterior não concluída"
                   /\ StatusDasEtapas(aeronaves') = StatusDasEtapas(aeronaves)
    ]_vars

\* C1 witness: the second stage was started after the first was finished
SecondStageStarted ==
  /\ saida = "Etapa iniciada"
  /\ \E i \in 1..Len(aeronaves) :
       /\ Len(aeronaves[i].etapas) = 2
       /\ aeronaves[i].etapas[1].status = CONCLUIDA
       /\ aeronaves[i].etapas[2].status = ANDAMENTO

TransicaoValida(s, t) ==
  \/ s = t
  \/ s = PENDENTE /\ t = ANDAMENTO
  \/ s = ANDAMENTO /\ t = CONCLUIDA

\* C2: in every step, the status of every stage of an aircraft that stays in
\* the repository is unchanged or moves PENDENTE -> ANDAMENTO or
\* ANDAMENTO -> CONCLUIDA: no reverse transition, no skipped state.
StageStatusOnlyForward ==
  [][\A i \in 1..Len(aeronaves), j \in 1..Len(aeronaves') :
       aeronaves[i].codigo = aeronaves'[j].codigo =>
         \A k \in 1..Len(aeronaves[i].etapas) :
           k <= Len(aeronaves'[j].etapas) =>
             TransicaoValida(aeronaves[i].etapas[k].status,
                             aeronaves'[j].etapas[k].status)
    ]_vars

\* C3: with an authorised session, finishEtapa on a stage found in an
\* existing aircraft prints 'Etapa finalizada' and leaves the stage CONCLUIDA
\* if and only if the stage is ANDAMENTO; from PENDENTE or CONCLUIDA it prints
\* 'Etapa não está em andamento' and leaves the repository and its documents
\* unchanged.
FinishStageIffInProgress ==
  [][\A codigo \in Codigos, eid \in genId("E-") :
       (finishEtapa(codigo, eid) /\ requireAuth(AdminEngenheiro) = "ok"
          /\ IndiceAeronave(codigo) # 0) =>
         LET ia == IndiceAeronave(codigo)
             idx == IndiceEtapa(aeronaves[ia], eid)
         IN idx # 0 =>
              IF aeronaves[ia].etapas[idx].status = ANDAMENTO
              THEN /\ saida' = "Etapa finalizada"
                   /\ aeronaves'[ia].etapas[idx].status = CONCLUIDA
              ELSE /\ saida' = "Etapa não está em andamento"
                   /\ UNCHANGED repoEArquivos
    ]_vars

\* C3 witness: finishEtapa was refused on the only stage, which is CONCLUIDA
FinishRefusedOnDoneStage ==
  /\ saida = "Etapa não está em andamento"
  /\ Len(aeronaves) = 1
  /\ Len(aeronaves[1].etapas) = 1
  /\ aeronaves[1].etapas[1].status = CONCLUIDA

\* the session is none, or an employee of a level outside levels
ForaDaLista(levels) ==
  IF currentUser = null THEN TRUE ELSE currentUser.nivel \notin levels

\* what a command does when requireAuth throws: the message of the error, and
\* the repository, its documents, the reports and the session as they were
Negado ==
  /\ saida' = IF currentUser = null THEN "ERRO: Autenticação necessária"
              ELSE "ERRO: Permissão negada"
  /\ UNCHANGED <<repoEArquivos, relatorios, currentUser>>

SoAdministrador == {"ADMINISTRADOR"}
AdministradorOuEngenheiro == {"ADMINISTRADOR", "ENGENHEIRO"}
QualquerNivel == {"ADMINISTRADOR", "ENGENHEIRO", "OPERADOR"}

\* C4: every gated command run without a session fails with 'Autenticação
\* necessária', and run by a level outside its allow-list (deleteFuncionario:
\* ADMINISTRADOR; startEtapa: all three levels; the others: ADMINISTRADOR or
\* ENGENHEIRO) fails with 'Permissão negada', leaving repository, documents,
\* reports and session unchanged; and no step taken under an OPERADOR session
\* makes a stage CONCLUIDA or removes an employee.
GatedCommandsNeedAllowedLevel ==
  [][/\ ForaDaLista(SoAdministrador) => (cmd_deleteFuncionario => Negado)
     /\ ForaDaLista(AdministradorOuEngenheiro) =>
          /\ cmd_createAeronave(MaxEntidades) => Negado
          /\ cmd_deleteAeronave => Negado
          /\ cmd_addPeca(MaxEntidades) => Negado
          /\ cmd_addEtapa(MaxEntidades) => Negado
          /\ cmd_addTeste(MaxEntidades) => Negado
          /\ cmd_assignFuncionario => Negado
          /\ cmd_setResultadoTeste => Negado
          /\ cmd_generateReport => Negado
          /\ cmd_finishEtapa => Negado
     /\ ForaDaLista(QualquerNivel) => (cmd_startEtapa => Negado)
     /\ (currentUser # null /\ currentUser.nivel = "OPERADOR") =>
          /\ funcionarios' = funcionarios
          /\ \A i \in 1..Len(aeronaves), j \in 1..Len(aeronaves') :
               aeronaves[i].codigo = aeronaves'[j].codigo =>
                 \A k \in 1..Len(aeronaves'[j].etapas) :
                   (k <= Len(aeronaves[i].etapas)
                      /\ aeronaves'[j].etapas[k].status = CONCLUIDA)
                     => aeronaves[i].etapas[k].status = CONCLUIDA
    ]_vars

\* C4 witness: an OPERADOR, with a stage under way, was refused a command
OperatorRefused ==
  /\ currentUser # null
  /\ currentUser.nivel = "OPERADOR"
  /\ saida = "ERRO: Permissão negada"
  /\ \E i \in 1..Len(aeronaves) :
       \E k \in 1..Len(aeronaves[i].etapas) : aeronaves[i].etapas[k].status = ANDAMENTO

\* the employees whose user name and password are both those typed
Correspondentes(cred) ==
  {i \in 1..Len(funcionarios) :
     funcionarios[i].usuario = cred[1] /\ funcionarios[i].senha = cred[2]}

\* C5: login with a user name and password that no employee has both of
\* prints 'Login falhou' and leaves the session as it was (no session stays
\* no session); login with a pair an employee has makes that employee the
\* session, so the session's level is the employee's stored level; logout
\* leaves no session.
LoginSetsSessionOnlyOnMatch ==
  [][/\ \A cred \in Credenciais :
          login(cred) =>
            IF Correspondentes(cred) = {}
            THEN /\ saida' = "Login falhou"
                 /\ currentUser' = currentUser
                 /\ UNCHANGED repoEArquivos
            ELSE \E i \in Correspondentes(cred) :
                   /\ currentUser' = funcionarios[i]
                   /\ currentUser'.nivel = funcionarios[i].nivel
     /\ cmd_logout => currentUser' = null
    ]_vars

\* C5 witness: of two employees with the same user name and password and
\* different levels, the session is the first
LoggedInAsStoredEmployee ==
  /\ saida = "Logado como"
  /\ Len(funcionarios) = 2
  /\ funcionarios[1].nivel # funcionarios[2].nivel
  /\ currentUser = funcionarios[1]

\* an aircraft of the repository has this code
CodigoPresente(codigo) == \E i \in 1..Len(aeronaves) : aeronaves[i].codigo = codigo

\* C6 as stated: createAeronave with the code of an aircraft of the repository
\* always prints 'Código já existe' and leaves the repository unchanged.
DuplicateCodeAlwaysRejected ==
  [][\A codigo \in Codigos, d \in DadosAeronave :
       (CodigoPresente(codigo) /\ createAeronave(codigo, d, MaxEntidades)) =>
         /\ saida' = "Código já existe"
         /\ UNCHANGED repoEArquivos
    ]_vars

\* C6 amended: createAeronave with the code of an aircraft of the repository
\* leaves the repository and its documents unchanged; it prints 'Código já
\* existe' when the session is an ADMINISTRADOR or ENGENHEIRO, and the error
\* of requireAuth otherwise.
DuplicateCodeRejectedAfterAuth ==
  [][\A codigo \in Codigos, d \in DadosAeronave :
       (CodigoPresente(codigo) /\ createAeronave(codigo, d, MaxEntidades)) =>
         /\ UNCHANGED repoEArquivos
         /\ IF currentUser = null THEN saida' = "ERRO: Autenticação necessária"
            ELSE IF currentUser.nivel \in {"ADMINISTRADOR", "ENGENHEIRO"}
                 THEN saida' = "Código já existe"
                 ELSE saida' = "ERRO: Permissão negada"
    ]_vars

\* C6 witness: a duplicate code was refused
DuplicateCodeRefused ==
  /\ saida = "Código já existe"
  /\ Len(aeronaves) = 1
  /\ currentUser # null

\* C7: no two aircraft of the repository have the same code.
UniqueAircraftCodes ==
  \A i, j \in 1..Len(aeronaves) :
    aeronaves[i].codigo = aeronaves[j].codigo => i = j

\* C7 witness: two aircraft, and a third creation refused as a duplicate
TwoAircraftAndDuplicateRefused ==
  /\ Len(aeronaves) = 2
  /\ saida = "Código já existe"

\* the fields of the aircraft, without the prototypes of the objects
Campos(as) ==
  [i \in 1..Len(as) |->
     [as[i] EXCEPT !.etapas = [k \in 1..Len(as[i].etapas) |-> EtapaJSON(as[i].etapas[k])]]]

\* C8: persisting the repository and loading the two documents again gives
\* aircraft and employees equal field for field to those persisted.
RoundTripReproducesRepository ==
  /\ Campos(Parse(loadJSON(saveJSON(Stringify(aeronaves)), <<>>))) = Campos(aeronaves)
  /\ loadJSON(saveJSON(funcionarios), <<>>) = funcionarios

\* the two documents hold what the collections in memory hold
Sincronizado ==
  /\ loadJSON(arqAeronaves, <<>>) = Stringify(aeronaves)
  /\ loadJSON(arqFuncionarios, <<>>) = funcionarios

\* C9: a step from a state where the documents hold the collections ends in
\* a state where they do, whether the command succeeded, was refused or threw.
PersistenceFollowsEveryCommand == [][Sincronizado => Sincronizado']_vars

\* the aircraft number i of the document holds this client and delivery date
DocumentoTem(doc, i, cliente, dataEntrega) ==
  /\ i <= Len(doc)
  /\ doc[i].cliente = Str(cliente)
  /\ doc[i].dataEntrega = Str(dataEntrega)

\* C10: generateReport on an existing aircraft sets client and delivery date
\* and writes the aircraft document before the report file: a report file is
\* written only after aeronaves.json has been, in the same command; on an
\* unknown code it prints 'Aeronave não encontrada' and changes nothing.
ReportWrittenAfterPersist ==
  [][\A codigo \in Codigos, cliente \in Clientes, dataEntrega \in DatasEntrega :
       (requireAuth(AdminEngenheiro) = "ok"
          /\ generateReport(codigo, cliente, dataEntrega)) =>
         IF CodigoPresente(codigo)
         THEN /\ DocumentoTem(Stringify(aeronaves'), IndiceAeronave(codigo),
                              cliente, dataEntrega)
              /\ \A i \in 1..Len(escritas') :
                   escritas'[i] = "_relatorio.txt" =>
                     /\ \E j \in 1..(i - 1) : escritas'[j] = "aeronaves.json"
                     /\ DocumentoTem(loadJSON(arqAeronaves', <<>>),
                                     IndiceAeronave(codigo), cliente, dataEntrega)
         ELSE /\ saida' = "Aeronave não encontrada"
              /\ UNCHANGED <<repoEArquivos, relatorios, currentUser>>
    ]_vars

\* the answers a createAeronave accepts as they are: a type that names
\* COMERCIAL or MILITAR in any case, and digits for capacity and range
Valido(d) ==
  /\ d.tipoRaw \in {"COMERCIAL", "comercial", "MILITAR", "militar"}
  /\ d.capacidade # <<>>
  /\ d.alcance # <<>>
  /\ \A i \in 1..Len(d.capacidade) : d.capacidade[i] \in DOMAIN DigitoValor
  /\ \A i \in 1..Len(d.alcance) : d.alcance[i] \in DOMAIN DigitoValor

\* the type an accepted answer names
TipoNomeado(tipoRaw) ==
  IF tipoRaw \in {"COMERCIAL", "comercial"} THEN "COMERCIAL" ELSE "MILITAR"

\* C11: with an ADMINISTRADOR or ENGENHEIRO session, createAeronave with
\* valid answers and a code no aircraft has prints 'Aeronave criada'; the
\* aircraft then found by that code has the code, model, type, capacity and
\* range typed, no parts, stages or tests, and no client or delivery date; the
\* aircraft there were before and the employees are as they were.
CreateThenLookupReturnsFields ==
  [][\A codigo \in Codigos, d \in DadosAeronave :
       (createAeronave(codigo, d, MaxEntidadesEtapas)
          /\ requireAuth(AdminEngenheiro) = "ok"
          /\ ~CodigoPresente(codigo) /\ Valido(d)) =>
         /\ saida' = "Aeronave criada"
         /\ \E j \in 1..Len(aeronaves') :
              /\ aeronaves'[j].codigo = codigo
              /\ \A k \in 1..(j - 1) : aeronaves'[k].codigo # codigo
              /\ aeronaves'[j].modelo = d.modelo
              /\ aeronaves'[j].tipo = TipoNomeado(d.tipoRaw)
              /\ aeronaves'[j].capacidade = Num(Decimal(d.capacidade))
              /\ aeronaves'[j].alcance = Num(Decimal(d.alcance))
              /\ aeronaves'[j].pecas = <<>>
              /\ aeronaves'[j].etapas = <<>>
              /\ aeronaves'[j].testes = <<>>
              /\ aeronaves'[j].cliente = null
              /\ aeronaves'[j].dataEntrega = null
         /\ Len(aeronaves') = Len(aeronaves) + 1
         /\ SubSeq(aeronaves', 1, Len(aeronaves)) = aeronaves
         /\ funcionarios' = funcionarios
    ]_vars

\* C11 witness: a second aircraft was created with valid answers beside one
\* that has a stage
AircraftCreatedBesideAnother ==
  /\ saida = "Aeronave criada"
  /\ Len(aeronaves) = 2
  /\ aeronaves[1].etapas # <<>>
  /\ aeronaves[2].capacidade = Num(180)
  /\ aeronaves[2].alcance = Num(45)
  /\ aeronaves[2].tipo = "MILITAR"

\* an employee of the repository has this id
FuncionarioPresente(fid) == \E i \in 1..Len(funcionarios) : funcionarios[i].id = fid

\* no id is twice in the assignee list of a stage
SemAssociacaoRepetida ==
  \A i \in 1..Len(aeronaves) : \A k \in 1..Len(aeronaves[i].etapas) :
    LET fs == aeronaves[i].etapas[k].funcionarios
    IN \A m, n \in 1..Len(fs) : fs[m] = fs[n] => m = n

\* C12: with an ADMINISTRADOR or ENGENHEIRO session, assignFuncionario leaves
\* the repository and its documents unchanged when the aircraft, the stage or
\* the employee is not found; otherwise the assignee list of the stage found
\* is afterwards the list before, with the employee id appended unless it was
\* already in it; and no assignee list ever holds an id twice.
AssignAddsEmployeeOnce ==
  /\ []SemAssociacaoRepetida
  /\ [][\A codigo \in Codigos, eid \in genId("E-"), fid \in genId("F-") :
          (assignFuncionario(codigo, eid, fid)
             /\ requireAuth(AdminEngenheiro) = "ok") =>
            LET ia == IndiceAeronave(codigo)
                idx == IF ia = 0 THEN 0 ELSE IndiceEtapa(aeronaves[ia], eid)
            IN IF ia = 0 \/ idx = 0 \/ ~FuncionarioPresente(fid)
               THEN UNCHANGED repoEArquivos
               ELSE LET antes == aeronaves[ia].etapas[idx].funcionarios
                        depois == aeronaves'[ia].etapas[idx].funcionarios
                    IN /\ saida' = "Funcionário associado"
                       /\ depois = IF Includes(antes, fid) THEN antes
                                   ELSE Append(antes, fid)
       ]_vars

\* the sequence without its element number i
SemElemento(seq, i) ==
  [j \in 1..(Len(seq) - 1) |-> IF j < i THEN seq[j] ELSE seq[j + 1]]

\* C13: deleteFuncionario by an ADMINISTRADOR prints 'Funcionário não
\* encontrado' and leaves the repository and its documents unchanged when no
\* employee has the id; otherwise the employee list afterwards is the list
\* before without the employee of that id, and every aircraft, with every
\* assignee list that holds the id, is as it was.
DeleteEmployeeRemovesOnlyThat ==
  [][requireAuth(Admin) = "ok" =>
       \A fid \in genId("F-") :
         deleteFuncionario(fid) =>
           IF ~FuncionarioPresente(fid)
           THEN /\ saida' = "Funcionário não encontrado"
                /\ UNCHANGED repoEArquivos
           ELSE /\ saida' = "Funcionário deletado com sucesso!"
                /\ \E i \in 1..Len(funcionarios) :
                     /\ funcionarios[i].id = fid
                     /\ funcionarios' = SemElemento(funcionarios, i)
                /\ ~FuncionarioPresente(fid)'
                /\ aeronaves' = aeronaves
    ]_vars

\* C13 witness: an employee assigned to a stage was deleted, and the stage
\* still lists the id
DeletedEmployeeStillAssigned ==
  /\ saida = "Funcionário deletado com sucesso!"
  /\ \E i \in 1..Len(aeronaves) : \E k \in 1..Len(aeronaves[i].etapas) :
       \E m \in 1..Len(aeronaves[i].etapas[k].funcionarios) :
         ~FuncionarioPresente(aeronaves[i].etapas[k].funcionarios[m])

\* the level an answer names, in any case; OPERADOR when it names none
NivelNomeado(nivelRaw) ==
  IF nivelRaw \in {"ADMINISTRADOR", "administrador"} THEN "ADMINISTRADOR"
  ELSE IF nivelRaw \in {"ENGENHEIRO", "engenheiro"} THEN "ENGENHEIRO"
  ELSE "OPERADOR"

\* C14: createFuncionario asks for no session: whatever the session, it
\* prints 'Funcionário criado', appends one employee with the user name and
\* password typed and the level the answer names (OPERADOR when it names none
\* of the three), and leaves the session, the employees there were and every
\* aircraft as they were; it can be run in every state.
CreateEmployeeNeedsNoSession ==
  /\ [](Len(funcionarios) < MaxFuncionarios => ENABLED cmd_createFuncionario)
  /\ [][\A usuario \in Usuarios, senha \in Senhas, nivelRaw \in NiveisRaw,
           id \in genId("F-") :
          createFuncionario(usuario, senha, nivelRaw, id) =>
            /\ saida' = "Funcionário criado"
            /\ Len(funcionarios') = Len(funcionarios) + 1
            /\ SubSeq(funcionarios', 1, Len(funcionarios)) = funcionarios
            /\ funcionarios'[Len(funcionarios')].id = id
            /\ funcionarios'[Len(funcionarios')].usuario = usuario
            /\ funcionarios'[Len(funcionarios')].senha = senha
            /\ funcionarios'[Len(funcionarios')].nivel = NivelNomeado(nivelRaw)
            /\ currentUser' = currentUser
            /\ aeronaves' = aeronaves
       ]_vars

\* C14 witness: with no session and an aircraft in the repository, an
\* employee was created whose answer named no level, beside an ENGENHEIRO
\* whose answer was in lower case
EmployeeCreatedWithoutSession ==
  /\ saida = "Funcionário criado"
  /\ currentUser = null
  /\ aeronaves # <<>>
  /\ Len(funcionarios) = 2
  /\ funcionarios[1].nivel = "ENGENHEIRO"
  /\ funcionarios[2].nivel = "OPERADOR"

\* the result an answer names: APROVADO in any case, REPROVADO otherwise
ResultadoNomeado(resRaw) ==
  IF resRaw \in {"APROVADO", "aprovado"} THEN Str("APROVADO") ELSE Str("REPROVADO")

\* C15: with an ADMINISTRADOR or ENGENHEIRO session, setResultadoTeste prints
\* 'Aeronave não encontrada' or 'Teste não encontrado' and leaves the
\* repository and its documents unchanged when the aircraft or the test is
\* unknown; otherwise the first test of that id gets the result the answer
\* names, whatever its result was, and nothing else of the repository changes.
SetTestResultSetsOnlyThatTest ==
  [][requireAuth(AdminEngenheiro) = "ok" =>
       \A codigo \in Codigos, tid \in genId("T-"), resRaw \in ResultadosRaw :
         setResultadoTeste(codigo, tid, resRaw) =>
           LET ia == IndiceAeronave(codigo)
           IN IF ia = 0
              THEN /\ saida' = "Aeronave não encontrada"
                   /\ UNCHANGED repoEArquivos
              ELSE IF \A k \in 1..Len(aeronaves[ia].testes) :
                        aeronaves[ia].testes[k].id # tid
              THEN /\ saida' = "Teste não encontrado"
                   /\ UNCHANGED repoEArquivos
              ELSE /\ saida' = "Resultado setado"
                   /\ funcionarios' = funcionarios
                   /\ \E it \in 1..Len(aeronaves[ia].testes) :
                        /\ aeronaves[ia].testes[it].id = tid
                        /\ \A k \in 1..(it - 1) : aeronaves[ia].testes[k].id # tid
                        /\ aeronaves' =
                             [aeronaves EXCEPT
                                ![ia].testes[it].resultado = ResultadoNomeado(resRaw)]
    ]_vars

\* C15 witness: of two tests of an aircraft one is APROVADO and the other
\* REPROVADO, and a result has just been set
TwoTestsWithBothResults ==
  /\ saida = "Resultado setado"
  /\ \E i \in 1..Len(aeronaves) :
       /\ Len(aeronaves[i].testes) = 2
       /\ aeronaves[i].testes[1].resultado = Str("APROVADO")
       /\ aeronaves[i].testes[2].resultado = Str("REPROVADO")

\* C16: with an ADMINISTRADOR or ENGENHEIRO session, deleteAeronave prints
\* 'Aeronave não encontrada' and leaves the repository and its documents
\* unchanged when no aircraft has the code; otherwise the aircraft list
\* afterwards is the list before without that aircraft (and so without its
\* parts, stages and tests), no aircraft has the code any more and the
\* employees are as they were; and createAeronave on a code no aircraft has,
\* as after the deletion, appends an aircraft of that code with no parts,
\* stages or tests and no client or delivery date.
DeleteAircraftRemovesOnlyThat ==
  [][requireAuth(AdminEngenheiro) = "ok" =>
       \A codigo \in Codigos :
         /\ deleteAeronave(codigo) =>
              IF ~CodigoPresente(codigo)
              THEN /\ saida' = "Aeronave não encontrada"
                   /\ UNCHANGED repoEArquivos
              ELSE /\ saida' = "Aeronave deletada com sucesso!"
                   /\ \E i \in 1..Len(aeronaves) :
                        /\ aeronaves[i].codigo = codigo
                        /\ aeronaves' = SemElemento(aeronaves, i)
                   /\ ~CodigoPresente(codigo)'
                   /\ funcionarios' = funcionarios
         /\ \A d \in DadosAeronave :
              (~CodigoPresente(codigo)
                 /\ createAeronave(codigo, d, MaxEntidadesTestes)) =>
                /\ saida' = "Aeronave criada"
                /\ Len(aeronaves') = Len(aeronaves) + 1
                /\ aeronaves'[Len(aeronaves')].codigo = codigo
                /\ aeronaves'[Len(aeronaves')].pecas = <<>>
                /\ aeronaves'[Len(aeronaves')].etapas = <<>>
                /\ aeronaves'[Len(aeronaves')].testes = <<>>
                /\ aeronaves'[Len(aeronaves')].cliente = null
                /\ aeronaves'[Len(aeronaves')].dataEntrega = null
    ]_vars

\* C16 witness: an aircraft was deleted and the other one, with the part,
\* stage or test it owns, is still there
AircraftDeletedOtherKept ==
  /\ saida = "Aeronave deletada com sucesso!"
  /\ Len(aeronaves) = 1
  /\ Len(aeronaves[1].pecas) + Len(aeronaves[1].etapas) + Len(aeronaves[1].testes) = 1

\* no id is twice in a sequence of entities
IdsDistintos(seq) == \A m, n \in 1..Len(seq) : seq[m].id = seq[n].id => m = n

\* C17: no two employees of the repository have the same id, and no two
\* parts, two stages or two tests of one aircraft have the same id.
GeneratedIdsUnique ==
  /\ IdsDistintos(funcionarios)
  /\ \A i \in 1..Len(aeronaves) :
       /\ IdsDistintos(aeronaves[i].pecas)
       /\ IdsDistintos(aeronaves[i].etapas)
       /\ IdsDistintos(aeronaves[i].testes)

\* the stage of this id of the aircraft of this code was loaded from
\* aeronaves.json by an earlier start of the program
EtapaCarregada(codigo, eid) ==
  /\ IndiceAeronave(codigo) # 0
  /\ IndiceEtapa(aeronaves[IndiceAeronave(codigo)], eid) # 0
  /\ LET a == aeronaves[IndiceAeronave(codigo)]
     IN a.etapas[IndiceEtapa(a, eid)].proto = "Object"

\* C18: on a stage loaded from the persisted document the commands do what
\* they do on a stage built in the running process: with an authorised
\* session, assignFuncionario of an employee of the repository prints
\* 'Funcionário associado' and the stage's assignee list then holds the id;
\* startEtapa starts the stage exactly when it is the first or the stage
\* before it is CONCLUIDA; finishEtapa finishes it exactly when it is
\* ANDAMENTO.
LoadedStagesBehaveAsBuilt ==
  [][\A codigo \in Codigos, eid \in genId("E-") :
       EtapaCarregada(codigo, eid) =>
         LET ia == IndiceAeronave(codigo)
             idx == IndiceEtapa(aeronaves[ia], eid)
         IN /\ \A fid \in genId("F-") :
                 (requireAuth(AdminEngenheiro) = "ok" /\ FuncionarioPresente(fid)
                    /\ assignFuncionario(codigo, eid, fid)) =>
                   /\ saida' = "Funcionário associado"
                   /\ Includes(aeronaves'[ia].etapas[idx].funcionarios, fid)
            /\ (requireAuth(Todos) = "ok" /\ startEtapa(codigo, eid)) =>
                 IF idx = 1 \/ aeronaves[ia].etapas[idx - 1].status = CONCLUIDA
                 THEN aeronaves'[ia].etapas[idx].status = ANDAMENTO
                 ELSE StatusDasEtapas(aeronaves') = StatusDasEtapas(aeronaves)
            /\ (requireAuth(AdminEngenheiro) = "ok" /\ finishEtapa(codigo, eid)) =>
                 IF aeronaves[ia].etapas[idx].status = ANDAMENTO
                 THEN aeronaves'[ia].etapas[idx].status = CONCLUIDA
                 ELSE StatusDasEtapas(aeronaves') = StatusDasEtapas(aeronaves)
    ]_vars

\* C19: in every aircraft, a stage that is ANDAMENTO or CONCLUIDA and is not
\* the first has a CONCLUIDA stage before it.
StageUnderWayOnlyAfterPredecessorDone ==
  \A i \in 1..Len(aeronaves) : \A k \in 2..Len(aeronaves[i].etapas) :
    aeronaves[i].etapas[k].status \in {ANDAMENTO, CONCLUIDA} =>
      aeronaves[i].etapas[k - 1].status = CONCLUIDA

\* C20: when there is a session, the current user is one of the employees
\* of the repository.
SessionIsStoredEmployee ==
  currentUser # null => \E i \in 1..Len(funcionarios) : funcionarios[i] = currentUser
====
